---- MODULE Spec2Model ----
(***************************************************************************)
(* Model of backend/server.js: the REST API in front of the Supabase table *)
(* "produtos" (lines 1-264) and the browser client that lists, creates     *)
(* and deletes products through it (lines 265-729).                        *)
(*                                                                         *)
(* JavaScript values are records of one shape; strings are sequences of    *)
(* one-character strings so that trim, Number(), parseFloat() and          *)
(* parseInt() are computed character by character, as the language does.   *)
(* Finite numbers are decimals m / 10^d kept normalised (5.50 = 55/10).    *)
(* Exponent notation and binary/octal literals are outside the alphabet    *)
(* of the inputs drawn below.                                              *)
(***************************************************************************)
EXTENDS Integers, Sequences, FiniteSets, Bags, TLC

(* ----------------------------------------------------------------------- *)
(* Bounds                                                                  *)
(* ----------------------------------------------------------------------- *)
\* ids the store hands out before the model stops inserting
MaxId == 2

(* ----------------------------------------------------------------------- *)
(* JavaScript values                                                       *)
(* ----------------------------------------------------------------------- *)
Undefined == [t |-> "undefined", b |-> FALSE, k |-> "", m |-> 0, d |-> 0, s |-> <<>>]
Null == [t |-> "null", b |-> FALSE, k |-> "", m |-> 0, d |-> 0, s |-> <<>>]
Bool(x) == [t |-> "boolean", b |-> x, k |-> "", m |-> 0, d |-> 0, s |-> <<>>]
Str(chars) == [t |-> "string", b |-> FALSE, k |-> "", m |-> 0, d |-> 0, s |-> chars]
NaN == [t |-> "number", b |-> FALSE, k |-> "nan", m |-> 0, d |-> 0, s |-> <<>>]
Infinity(sign) == [t |-> "number", b |-> FALSE, k |-> "inf", m |-> sign, d |-> 0, s |-> <<>>]

RECURSIVE Fin(_, _)
\* the finite number m / 10^d, normalised
Fin(m, d) ==
    IF d > 0 /\ m % 10 = 0
    THEN Fin(m \div 10, d - 1)
    ELSE [t |-> "number", b |-> FALSE, k |-> "fin", m |-> m, d |-> d, s |-> <<>>]

Num(n) == Fin(n, 0)

RECURSIVE Pow10(_)
Pow10(n) == IF n = 0 THEN 1 ELSE 10 * Pow10(n - 1)

Abs(n) == IF n < 0 THEN 0 - n ELSE n

(* ----------------------------------------------------------------------- *)
(* Characters                                                              *)
(* ----------------------------------------------------------------------- *)
Digits == {"0", "1", "2", "3", "4", "5", "6", "7", "8", "9"}
HexLetters == {"a", "b", "c", "d", "e", "f", "A", "B", "C", "D", "E", "F"}
HexDigits == Digits \cup HexLetters
WhiteSpace == {" "}

DigitVal(c) ==
    CASE c = "0" -> 0 [] c = "1" -> 1 [] c = "2" -> 2 [] c = "3" -> 3
      [] c = "4" -> 4 [] c = "5" -> 5 [] c = "6" -> 6 [] c = "7" -> 7
      [] c = "8" -> 8 [] c = "9" -> 9
      [] c \in {"a", "A"} -> 10 [] c \in {"b", "B"} -> 11
      [] c \in {"c", "C"} -> 12 [] c \in {"d", "D"} -> 13
      [] c \in {"e", "E"} -> 14 [] c \in {"f", "F"} -> 15

DigitChar(n) ==
    CASE n = 0 -> "0" [] n = 1 -> "1" [] n = 2 -> "2" [] n = 3 -> "3"
      [] n = 4 -> "4" [] n = 5 -> "5" [] n = 6 -> "6" [] n = 7 -> "7"
      [] n = 8 -> "8" [] n = 9 -> "9"

\* the part of s from index i on
Drop(s, i) == IF i > Len(s) THEN <<>> ELSE SubSeq(s, i, Len(s))

StartsWith(s, p) == Len(s) >= Len(p) /\ SubSeq(s, 1, Len(p)) = p

RECURSIVE CountWhile(_, _, _)
\* how many consecutive characters of s, from index i on, belong to set
CountWhile(s, i, set) ==
    IF i <= Len(s) /\ s[i] \in set THEN 1 + CountWhile(s, i + 1, set) ELSE 0

RECURSIVE DigitsValue(_, _, _)
\* the value, in the given radix, of the digit string s
DigitsValue(s, radix, acc) ==
    IF s = <<>> THEN acc
    ELSE DigitsValue(Tail(s), radix, acc * radix + DigitVal(Head(s)))

(* ----------------------------------------------------------------------- *)
(* String.prototype.trim                                                   *)
(* ----------------------------------------------------------------------- *)
RECURSIVE TrimStart(_)
TrimStart(s) ==
    IF s # <<>> /\ Head(s) \in WhiteSpace THEN TrimStart(Tail(s)) ELSE s

RECURSIVE TrimEnd(_)
TrimEnd(s) ==
    IF s # <<>> /\ s[Len(s)] \in WhiteSpace
    THEN TrimEnd(SubSeq(s, 1, Len(s) - 1))
    ELSE s

Trim(s) == TrimEnd(TrimStart(s))

(* ----------------------------------------------------------------------- *)
(* Numeric literals                                                        *)
(* ----------------------------------------------------------------------- *)
InfinityWord == <<"I", "n", "f", "i", "n", "i", "t", "y">>

\* the longest prefix of s that is a StrDecimalLiteral (sign, digits,
\* optional fraction, or the word Infinity): whether there is one, how many
\* characters it takes and its value
DecimalPrefix(s) ==
    LET signLen == IF s # <<>> /\ Head(s) \in {"+", "-"} THEN 1 ELSE 0
        sign == IF s # <<>> /\ Head(s) = "-" THEN 0 - 1 ELSE 1
        body == Drop(s, signLen + 1)
        n1 == CountWhile(body, 1, Digits)
        hasDot == Len(body) > n1 /\ body[n1 + 1] = "."
        n2 == IF hasDot THEN CountWhile(body, n1 + 2, Digits) ELSE 0
        intPart == DigitsValue(SubSeq(body, 1, n1), 10, 0)
        fracPart == DigitsValue(SubSeq(body, n1 + 2, n1 + 1 + n2), 10, 0)
    IN  IF StartsWith(body, InfinityWord)
        THEN [ok |-> TRUE, len |-> signLen + 8, val |-> Infinity(sign)]
        ELSE IF n1 = 0 /\ n2 = 0
        THEN [ok |-> FALSE, len |-> 0, val |-> NaN]
        ELSE [ok |-> TRUE,
              len |-> signLen + n1 + (IF hasDot THEN 1 + n2 ELSE 0),
              val |-> Fin(sign * (intPart * Pow10(n2) + fracPart), n2)]

\* Number(string): the whole trimmed string must be one numeric literal
StringToNumber(s) ==
    LET t == Trim(s)
        hex == Drop(t, 3)
        dec == DecimalPrefix(t)
    IN  IF t = <<>> THEN Num(0)
        ELSE IF (StartsWith(t, <<"0", "x">>) \/ StartsWith(t, <<"0", "X">>))
                /\ hex # <<>> /\ CountWhile(hex, 1, HexDigits) = Len(hex)
        THEN Num(DigitsValue(hex, 16, 0))
        ELSE IF dec.ok /\ dec.len = Len(t) THEN dec.val
        ELSE NaN

RECURSIVE NatToString(_)
NatToString(n) ==
    IF n < 10 THEN <<DigitChar(n)>>
    ELSE NatToString(n \div 10) \o <<DigitChar(n % 10)>>

RECURSIVE FractionDigits(_, _)
\* the d digits of the fraction n / 10^d
FractionDigits(n, d) ==
    IF d = 0 THEN <<>> ELSE FractionDigits(n \div 10, d - 1) \o <<DigitChar(n % 10)>>

\* String(value)
JsString(v) ==
    CASE v.t = "string" -> v.s
      [] v.t = "undefined" -> <<"u", "n", "d", "e", "f", "i", "n", "e", "d">>
      [] v.t = "null" -> <<"n", "u", "l", "l">>
      [] v.t = "boolean" ->
            IF v.b THEN <<"t", "r", "u", "e">> ELSE <<"f", "a", "l", "s", "e">>
      [] v.t = "number" /\ v.k = "nan" -> <<"N", "a", "N">>
      [] v.t = "number" /\ v.k = "inf" ->
            (IF v.m < 0 THEN <<"-">> ELSE <<>>) \o InfinityWord
      [] v.t = "number" /\ v.k = "fin" ->
            (IF v.m < 0 THEN <<"-">> ELSE <<>>)
            \o NatToString(Abs(v.m) \div Pow10(v.d))
            \o (IF v.d = 0 THEN <<>>
                ELSE <<".">> \o FractionDigits(Abs(v.m) % Pow10(v.d), v.d))

\* Number(value)
ToNumber(v) ==
    CASE v.t = "number" -> v
      [] v.t = "undefined" -> NaN
      [] v.t = "null" -> Num(0)
      [] v.t = "boolean" -> IF v.b THEN Num(1) ELSE Num(0)
      [] v.t = "string" -> StringToNumber(v.s)

\* Boolean(value)
Truthy(v) ==
    CASE v.t = "undefined" -> FALSE
      [] v.t = "null" -> FALSE
      [] v.t = "boolean" -> v.b
      [] v.t = "number" -> ~(v.k = "nan" \/ (v.k = "fin" /\ v.m = 0))
      [] v.t = "string" -> v.s # <<>>

\* the global isNaN(value)
isNaN(v) == ToNumber(v).k = "nan"

\* value <= 0
LessOrEqualZero(v) ==
    LET n == ToNumber(v) IN n.k # "nan" /\ n.m <= 0

\* value > 0
GreaterThanZero(v) ==
    LET n == ToNumber(v) IN n.k # "nan" /\ n.m > 0

\* the global parseFloat(value)
parseFloat(v) ==
    LET r == DecimalPrefix(TrimStart(JsString(v)))
    IN  IF r.ok THEN r.val ELSE NaN

\* the global parseInt(value), no radix argument
parseInt(v) ==
    LET t == TrimStart(JsString(v))
        signLen == IF t # <<>> /\ Head(t) \in {"+", "-"} THEN 1 ELSE 0
        sign == IF t # <<>> /\ Head(t) = "-" THEN 0 - 1 ELSE 1
        u == Drop(t, signLen + 1)
        isHex == StartsWith(u, <<"0", "x">>) \/ StartsWith(u, <<"0", "X">>)
        body == IF isHex THEN Drop(u, 3) ELSE u
        radix == IF isHex THEN 16 ELSE 10
        n == CountWhile(body, 1, IF isHex THEN HexDigits ELSE Digits)
    IN  IF n = 0 THEN NaN
        ELSE Num(sign * DigitsValue(SubSeq(body, 1, n), radix, 0))

\* JSON.stringify of a number: NaN and the infinities become null
JsonNumber(n) == IF n.k = "fin" THEN n ELSE Null


(* ----------------------------------------------------------------------- *)
(* The store: the Supabase table "produtos"                                *)
(* ----------------------------------------------------------------------- *)
VARIABLES
    store,      \* the rows of the table
    nextId,     \* the next value of the table's identity column
    clock,      \* the store's clock, source of created_at
    removed     \* history: ids whose delete request was answered with success

storeVars == <<store, nextId, clock, removed>>

\* the message the store attaches to a failed call
StoreErrorMessage == "permission denied for table produtos"

Range(q) == {q[i] : i \in DOMAIN q}

\* the orders in which a select ordered by created_at may return the rows
\* (rows with equal created_at come in any order)
OrderedBy(rows, ascending) ==
    {q \in [1..Cardinality(rows) -> rows] :
        /\ Range(q) = rows
        /\ \A i, j \in DOMAIN q :
              i < j => IF ascending
                       THEN q[i].created_at <= q[j].created_at
                       ELSE q[i].created_at >= q[j].created_at}

\* supabase.from('produtos').select('*').order('created_at', {ascending}):
\* the result objects {data, error} the call may resolve to
StoreSelect(rows, ascending) ==
    {[failed |-> FALSE, error |-> "", data |-> q] : q \in OrderedBy(rows, ascending)}
    \cup {[failed |-> TRUE, error |-> StoreErrorMessage, data |-> <<>>]}

\* the row the store makes of an inserted object: it adds id and created_at
StoredRow(row, id, now) ==
    [id |-> id, nome |-> row.nome, preco |-> row.preco,
     descricao |-> row.descricao, created_at |-> now]

\* StoreInsert replacing the table by the inserted row
StoreInsertOverwrites(rows, row, id, now) ==
    {[failed |-> FALSE, error |-> "", data |-> <<StoredRow(row, id, now)>>,
      rows |-> {StoredRow(row, id, now)}]}

\* supabase.from('produtos').insert([row]).select(): the results the call
\* may resolve to, each with the table it leaves behind; nome and preco are
\* required columns, so a row with a null in one of them is refused
StoreInsert(rows, row, id, now) ==
    (IF row.nome.t = "null" \/ row.preco.t = "null"
     THEN {}
     ELSE {[failed |-> FALSE, error |-> "", data |-> <<StoredRow(row, id, now)>>,
            rows |-> rows \cup {StoredRow(row, id, now)}]})
    \cup {[failed |-> TRUE, error |-> StoreErrorMessage, data |-> <<>>, rows |-> rows]}

\* StoreDelete with the eq('id', value) filter left out of the query
StoreDeleteUnfiltered(rows, value) ==
    {[failed |-> FALSE, error |-> "", rows |-> {}, data |-> q] : q \in OrderedBy(rows, TRUE)}
    \cup {[failed |-> TRUE, error |-> StoreErrorMessage, rows |-> rows, data |-> <<>>]}

\* supabase.from('produtos').delete().eq('id', value).select(): a value
\* that is no integer is refused by the store; otherwise the rows whose id
\* equals the value are removed and returned
StoreDelete(rows, value) ==
    LET matched == {r \in rows : value.k = "fin" /\ value.d = 0 /\ r.id = value.m}
    IN  (IF value.k = "fin"
         THEN {[failed |-> FALSE, error |-> "", rows |-> rows \ matched, data |-> q] :
                  q \in OrderedBy(matched, TRUE)}
         ELSE {})
        \cup {[failed |-> TRUE, error |-> StoreErrorMessage, rows |-> rows, data |-> <<>>]}

(* ----------------------------------------------------------------------- *)
(* The API service (server.js lines 46-243)                                *)
(* ----------------------------------------------------------------------- *)
NoTotal == 0 - 1

NoRequest == [nome |-> Undefined, preco |-> Undefined, descricao |-> Undefined, id |-> <<>>]

\* res.status(status).json({success, message, error, data, total}); calls
\* counts the store calls the handler made before answering and dbError
\* keeps the error the store reported to it ("" when it reported none)
Envelope(op, req, status, success, message, error, data, total, calls) ==
    [op |-> op, req |-> req, status |-> status, success |-> success,
     message |-> message, error |-> error, data |-> data, total |-> total,
     calls |-> calls, dbError |-> ""]

\* the answer a handler sends after the store returned {data, error}
AfterStore(r, answer) == [answer EXCEPT !.dbError = r.error]

NoResponse == Envelope("none", NoRequest, 0, FALSE, "", "", <<>>, NoTotal, 0)

\* the catch block rethrowing instead of answering: no 500 envelope is
\* sent and the framework's own answer carries no success: false
InternalErrorRethrown(op, req, calls) ==
    Envelope(op, req, 200, TRUE, "", "", <<>>, NoTotal, calls)

\* the catch block of the three handlers
InternalError(op, req, calls) ==
    Envelope(op, req, 500, FALSE, "Erro interno do servidor", "TypeError", <<>>, NoTotal, calls)

\* GET /api/test
TestResponse ==
    Envelope("GET /api/test", NoRequest, 200, TRUE, "API funcionando perfeitamente!", "",
             <<>>, NoTotal, 0)

\* ListAscending with the ordering option dropped (ascending is the default)
ListAscendingDefault == TRUE

\* GET /api/produtos: the direction of the ordering it asks the store for
ListAscending == FALSE

\* GET /api/produtos: the answer made of the store's result
ListResponse(r) ==
    AfterStore(r,
        IF r.failed
        THEN Envelope("GET /api/produtos", NoRequest, 400, FALSE, "Erro ao buscar produtos",
                      r.error, <<>>, NoTotal, 1)
        ELSE Envelope("GET /api/produtos", NoRequest, 200, TRUE, "", "", r.data, Len(r.data), 1))

\* CreateValidation without the isNaN test of the second step
CreateValidationNoNaN(body) ==
    IF ~Truthy(body.nome) \/ ~Truthy(body.preco)
    THEN "Nome e preco sao obrigatorios"
    ELSE IF LessOrEqualZero(body.preco)
    THEN "Preco deve ser um numero maior que zero"
    ELSE ""

\* POST /api/produtos: the two validation steps; "" when the body passes
CreateValidation(body) ==
    IF ~Truthy(body.nome) \/ ~Truthy(body.preco)
    THEN "Nome e preco sao obrigatorios"
    ELSE IF isNaN(body.preco) \/ LessOrEqualZero(body.preco)
    THEN "Preco deve ser um numero maior que zero"
    ELSE ""

\* POST /api/produtos: building the inserted object calls .trim() on nome
\* and on a truthy descricao, which throws a TypeError unless it is a string
CreateThrows(body) ==
    \/ body.nome.t # "string"
    \/ Truthy(body.descricao) /\ body.descricao.t # "string"

\* POST /api/produtos: the object handed to insert
CreateRow(body) ==
    [nome |-> Str(Trim(body.nome.s)),
     preco |-> JsonNumber(parseFloat(body.preco)),
     descricao |-> IF Truthy(body.descricao) THEN Str(Trim(body.descricao.s)) ELSE Null]

\* POST /api/produtos: the answer made of the store's result
CreateResponse(req, r) ==
    AfterStore(r,
        IF r.failed
        THEN Envelope("POST /api/produtos", req, 400, FALSE, "Erro ao cadastrar produto",
                      r.error, <<>>, NoTotal, 1)
        ELSE Envelope("POST /api/produtos", req, 201, TRUE, "Produto cadastrado com sucesso!", "",
                      <<r.data[1]>>, NoTotal, 1))

\* DELETE /api/produtos/:id: the id check; "" when the id passes
DeleteValidation(id) ==
    IF isNaN(Str(id)) THEN "ID deve ser um numero valido" ELSE ""

\* DELETE /api/produtos/:id: the value handed to eq('id', ...)
DeleteKey(id) == parseInt(Str(id))

\* DeleteResponse testing data.length === 0 before testing the store's error
DeleteResponseLengthFirst(req, r) ==
    AfterStore(r,
        IF Len(r.data) = 0
        THEN Envelope("DELETE /api/produtos/:id", req, 404, FALSE, "Produto nao encontrado", "",
                      <<>>, NoTotal, 1)
        ELSE IF r.failed
        THEN Envelope("DELETE /api/produtos/:id", req, 400, FALSE, "Erro ao excluir produto",
                      r.error, <<>>, NoTotal, 1)
        ELSE Envelope("DELETE /api/produtos/:id", req, 200, TRUE, "Produto excluido com sucesso!",
                      "", <<r.data[1]>>, NoTotal, 1))

\* DELETE /api/produtos/:id: the answer made of the store's result
DeleteResponse(req, r) ==
    AfterStore(r,
        IF r.failed
        THEN Envelope("DELETE /api/produtos/:id", req, 400, FALSE, "Erro ao excluir produto",
                      r.error, <<>>, NoTotal, 1)
        ELSE IF Len(r.data) = 0
        THEN Envelope("DELETE /api/produtos/:id", req, 404, FALSE, "Produto nao encontrado", "",
                      <<>>, NoTotal, 1)
        ELSE Envelope("DELETE /api/produtos/:id", req, 200, TRUE, "Produto excluido com sucesso!",
                      "", <<r.data[1]>>, NoTotal, 1))

\* app.use('*'): any route that is none of the four
UnmatchedResponse ==
    Envelope("*", NoRequest, 404, FALSE, "Rota nao encontrada", "", <<>>, NoTotal, 0)

\* what a handler does: its answer and the table it leaves behind
Outcome(answer, rows, id, now, gone) ==
    [resp |-> answer, store |-> rows, nextId |-> id, clock |-> now, removed |-> gone]

\* a handler that answers without touching the table
Answered(answer) == Outcome(answer, store, nextId, clock, removed)

\* app.get('/api/test')
GetTest == {Answered(TestResponse)}

\* app.get('/api/produtos')
GetProdutos == {Answered(ListResponse(r)) : r \in StoreSelect(store, ListAscending)}

\* app.post('/api/produtos') with req.body = body; the store stamps the row
\* with its clock, which may have advanced since the last insert
PostProdutos(body) ==
    LET req == [nome |-> body.nome, preco |-> body.preco,
                descricao |-> body.descricao, id |-> <<>>]
    IN  IF CreateValidation(body) # ""
        THEN {Answered(Envelope("POST /api/produtos", req, 400, FALSE,
                                CreateValidation(body), "", <<>>, NoTotal, 0))}
        ELSE IF CreateThrows(body)
        THEN {Answered(InternalError("POST /api/produtos", req, 0))}
        ELSE IF nextId > MaxId
        THEN {}
        ELSE UNION {{Outcome(CreateResponse(req, r), r.rows,
                             IF r.failed THEN nextId ELSE nextId + 1,
                             IF r.failed THEN clock ELSE now, removed) :
                        r \in StoreInsert(store, CreateRow(body), nextId, now)} :
                    now \in {clock, clock + 1}}

\* app.delete('/api/produtos/:id') with req.params.id = id
DeleteProduto(id) ==
    LET req == [nome |-> Undefined, preco |-> Undefined, descricao |-> Undefined, id |-> id]
    IN  IF DeleteValidation(id) # ""
        THEN {Answered(Envelope("DELETE /api/produtos/:id", req, 400, FALSE,
                                DeleteValidation(id), "", <<>>, NoTotal, 0))}
        ELSE {Outcome(DeleteResponse(req, r), r.rows, nextId, clock,
                      IF DeleteResponse(req, r).success
                      THEN removed \cup {r.data[1].id}
                      ELSE removed) :
                 r \in StoreDelete(store, DeleteKey(id))}

\* app.use('*')
Unmatched == {Answered(UnmatchedResponse)}

\* the table after the handler has run
Stored(o) ==
    /\ store' = o.store
    /\ nextId' = o.nextId
    /\ clock' = o.clock
    /\ removed' = o.removed

\* the empty table
InitStore ==
    /\ store = {}
    /\ nextId = 1
    /\ clock = 1
    /\ removed = {}

(* ----------------------------------------------------------------------- *)
(* The client application (server.js lines 265-729)                        *)
(* ----------------------------------------------------------------------- *)
\* calls the client may have in flight at once
MaxTarefas == 2

VARIABLES
    produtos,            \* let produtos: the list fetched last
    produtoParaExcluir,  \* let produtoParaExcluir: the id awaiting confirmation
    modalConfirmacao,    \* the prompt: whether it is hidden, the name it shows
    lista,               \* the list view: loading, grid, empty state, counter
    btnCadastrar,        \* the submit button: disabled, text and spinner hidden
    statusConexao,       \* the status banner: class, hidden, pending hide timer
    tarefas,             \* the async calls in flight, each awaiting one fetch
    evento,              \* what the step taken last showed: notifications, form reset
    resp                 \* the answer to the request sent straight to the API last

clientVars == <<produtos, produtoParaExcluir, modalConfirmacao, lista, btnCadastrar,
                statusConexao, tarefas, evento>>

vars == <<store, nextId, clock, removed, produtos, produtoParaExcluir,
          modalConfirmacao, lista, btnCadastrar, statusConexao, tarefas, evento, resp>>

NoBody == [nome |-> Undefined, preco |-> Undefined, descricao |-> Undefined]

\* fetch(`${API_BASE_URL}${rota}${id}`, {method, body})
Pedido(method, rota, id, body) == [method |-> method, rota |-> rota, id |-> id, body |-> body]

\* the effects of one step on the page that no element keeps: the
\* notifications shown by mostrarNotificacao (type and fixed text) and
\* whether formProduto.reset() ran
Evento(notificacoes, reset) == [notificacoes |-> notificacoes, reset |-> reset]

Notificacao(tipo, mensagem) == [tipo |-> tipo, mensagem |-> mensagem]

Nada == Evento(<<>>, FALSE)

\* an async function suspended at its await fetch(...); chamador names the
\* listener that still has statements to run when it returns ("" if none)
Tarefa(fn, chamador, pedido) ==
    [fn |-> fn, chamador |-> chamador, pedido |-> pedido, etapa |-> "enviado",
     resposta |-> NoResponse]

Um(t) == SetToBag({t})

\* response.ok
Ok(r) == r.status >= 200 /\ r.status <= 299

\* toggleLoadingCadastro(loading)
toggleLoadingCadastro(loading) ==
    [disabled |-> loading, textoHidden |-> loading, loadingHidden |-> ~loading]

\* atualizarStatusConexao(status, mensagem)
atualizarStatusConexao(status) ==
    [classe |-> status, hidden |-> FALSE, timer |-> statusConexao.timer]

\* the display states the list view l shows
Visivel(l) == [loading |-> l.loading, vazia |-> l.vazia, grid |-> l.grid]

\* the list view of the page as served: no display state shown yet
NadaVisivel == [loading |-> FALSE, vazia |-> FALSE, grid |-> FALSE]

\* the first statements of buscarProdutos: show the loading indicator; antes
\* keeps what the view showed when the call began
ListaCarregando ==
    [lista EXCEPT !.loading = TRUE, !.grid = FALSE, !.vazia = FALSE, !.antes = Visivel(lista)]

\* buscarProdutos returning: antes is kept only while another call of
\* buscarProdutos is still pending
FimDaBusca(l, t) ==
    IF \E u \in BagToSet(tarefas (-) Um(t)) : u.fn = "buscarProdutos"
    THEN l
    ELSE [l EXCEPT !.antes = NadaVisivel]

\* the catch block of buscarProdutos: hide loading, show the empty state
ListaFalhou == [lista EXCEPT !.loading = FALSE, !.vazia = TRUE]

\* renderizarProdutos() with produtos = lst
renderizarProdutos(lst) ==
    IF Len(lst) = 0
    THEN [lista EXCEPT !.loading = FALSE, !.vazia = TRUE, !.grid = FALSE,
                       !.contador = FALSE]
    ELSE [loading |-> FALSE, vazia |-> FALSE, grid |-> TRUE, contador |-> TRUE,
          cartoes |-> [i \in DOMAIN lst |-> [id |-> lst[i].id, nome |-> lst[i].nome.s]],
          total |-> Len(lst), antes |-> lista.antes]

PedidoTeste == Pedido("GET", "/api/test", <<>>, NoBody)
PedidoLista == Pedido("GET", "/api/produtos", <<>>, NoBody)

\* the request of cadastrarProduto: the body is JSON.stringify(dadosProduto)
PedidoCadastro(dados) ==
    Pedido("POST", "/api/produtos", <<>>,
           [nome |-> dados.nome, preco |-> JsonNumber(dados.preco),
            descricao |-> dados.descricao])

\* the request of excluirProduto(id): the id is interpolated into the path
PedidoExclusao(id) == Pedido("DELETE", "/api/produtos/", JsString(id), NoBody)

\* the submit listener: the object read from the form fields
DadosProduto(nome, preco, descricao) ==
    [nome |-> Str(Trim(nome)),
     preco |-> parseFloat(Str(preco)),
     descricao |-> IF Trim(descricao) # <<>> THEN Str(Trim(descricao)) ELSE Null]

\* the submit listener: the two checks; "" when the form passes
ValidacaoFormulario(dados) ==
    IF ~Truthy(dados.nome) THEN "Nome do produto e obrigatorio"
    ELSE IF ~Truthy(dados.preco) \/ LessOrEqualZero(dados.preco)
    THEN "Preco deve ser maior que zero"
    ELSE ""

\* executarExclusao: the argument excluirProduto receives; the variable is
\* read after cancelarExclusao() has assigned null to it
ArgumentoExclusao(pendente) == Null

(* --- user and page events ---------------------------------------------- *)

\* form submit listener, with the values of the three fields; a disabled
\* submit button blocks the submission
Submit(nome, preco, descricao) ==
    LET dados == DadosProduto(nome, preco, descricao)
    IN  /\ ~btnCadastrar.disabled
        /\ IF ValidacaoFormulario(dados) # ""
           THEN /\ evento' = Evento(<<Notificacao("erro", ValidacaoFormulario(dados))>>, FALSE)
                /\ UNCHANGED <<tarefas, btnCadastrar>>
           ELSE /\ BagCardinality(tarefas) < MaxTarefas
                /\ btnCadastrar' = toggleLoadingCadastro(TRUE)
                /\ tarefas' = tarefas (+) Um(Tarefa("cadastrarProduto", "submit",
                                                    PedidoCadastro(dados)))
                /\ evento' = Nada
        /\ UNCHANGED <<produtos, produtoParaExcluir, modalConfirmacao, lista, statusConexao>>
        /\ UNCHANGED <<storeVars, resp>>

\* btnAtualizar click listener: buscarProdutos() up to its await
ClickAtualizar ==
    /\ BagCardinality(tarefas) < MaxTarefas
    /\ lista' = ListaCarregando
    /\ tarefas' = tarefas (+) Um(Tarefa("buscarProdutos", "", PedidoLista))
    /\ evento' = Nada
    /\ UNCHANGED <<produtos, produtoParaExcluir, modalConfirmacao, btnCadastrar, statusConexao>>
    /\ UNCHANGED <<storeVars, resp>>

\* confirmarExclusao setting the pending id without showing the prompt
confirmarExclusaoSemModal(id, nome) ==
    /\ produtoParaExcluir' = Num(id)
    /\ modalConfirmacao' = [modalConfirmacao EXCEPT !.nome = nome]
    /\ evento' = Nada
    /\ UNCHANGED <<produtos, lista, btnCadastrar, statusConexao, tarefas>>
    /\ UNCHANGED <<storeVars, resp>>

\* confirmarExclusao(id, nome), called by the delete button of a card
confirmarExclusao(id, nome) ==
    /\ produtoParaExcluir' = Num(id)
    /\ modalConfirmacao' = [hidden |-> FALSE, nome |-> nome]
    /\ evento' = Nada
    /\ UNCHANGED <<produtos, lista, btnCadastrar, statusConexao, tarefas>>
    /\ UNCHANGED <<storeVars, resp>>

\* a click on the delete button of a card shown in the grid
ClickExcluir ==
    /\ lista.grid
    /\ \E i \in DOMAIN lista.cartoes :
          confirmarExclusao(lista.cartoes[i].id, lista.cartoes[i].nome)

\* cancelarExclusao hiding the prompt without clearing the pending id
cancelarExclusaoKeepsId ==
    /\ modalConfirmacao' = [modalConfirmacao EXCEPT !.hidden = TRUE]
    /\ evento' = Nada
    /\ UNCHANGED <<produtos, produtoParaExcluir, lista, btnCadastrar, statusConexao, tarefas>>
    /\ UNCHANGED <<storeVars, resp>>

\* cancelarExclusao()
cancelarExclusao ==
    /\ produtoParaExcluir' = Null
    /\ modalConfirmacao' = [modalConfirmacao EXCEPT !.hidden = TRUE]
    /\ evento' = Nada
    /\ UNCHANGED <<produtos, lista, btnCadastrar, statusConexao, tarefas>>
    /\ UNCHANGED <<storeVars, resp>>

\* btnCancelar click listener (window.cancelarExclusao is the same function)
ClickCancelar == cancelarExclusao

\* modalConfirmacao click listener, the click landing on the backdrop itself
ClickFora ==
    /\ ~modalConfirmacao.hidden
    /\ cancelarExclusao

\* keydown listener with key Escape
TeclaEscape ==
    IF ~modalConfirmacao.hidden
    THEN cancelarExclusao
    ELSE /\ evento' = Nada
         /\ UNCHANGED <<produtos, produtoParaExcluir, modalConfirmacao, lista, btnCadastrar,
                        statusConexao, tarefas>>
         /\ UNCHANGED <<storeVars, resp>>

\* executarExclusao(), the btnConfirmar click listener, up to the await in
\* excluirProduto
executarExclusao ==
    IF Truthy(produtoParaExcluir)
    THEN /\ BagCardinality(tarefas) < MaxTarefas
         /\ produtoParaExcluir' = Null
         /\ modalConfirmacao' = [modalConfirmacao EXCEPT !.hidden = TRUE]
         /\ tarefas' = tarefas (+) Um(Tarefa("excluirProduto", "",
                                       PedidoExclusao(ArgumentoExclusao(produtoParaExcluir))))
         /\ evento' = Nada
         /\ UNCHANGED <<produtos, lista, btnCadastrar, statusConexao>>
         /\ UNCHANGED <<storeVars, resp>>
    ELSE /\ evento' = Nada
         /\ UNCHANGED <<produtos, produtoParaExcluir, modalConfirmacao, lista, btnCadastrar,
                        statusConexao, tarefas>>
         /\ UNCHANGED <<storeVars, resp>>

\* the setTimeout callback of testarConexao: hide the banner
OcultarStatus ==
    /\ statusConexao.timer
    /\ statusConexao' = [statusConexao EXCEPT !.hidden = TRUE, !.timer = FALSE]
    /\ evento' = Nada
    /\ UNCHANGED <<produtos, produtoParaExcluir, modalConfirmacao, lista, btnCadastrar, tarefas>>
    /\ UNCHANGED <<storeVars, resp>>

(* --- the server answering a request of the client ---------------------- *)

\* Express routing: the handler a request reaches
Rota(p) ==
    CASE p.method = "GET" /\ p.rota = "/api/test" -> GetTest
      [] p.method = "GET" /\ p.rota = "/api/produtos" -> GetProdutos
      [] p.method = "POST" /\ p.rota = "/api/produtos" -> PostProdutos(p.body)
      [] p.method = "DELETE" /\ p.rota = "/api/produtos/" /\ p.id # <<>> -> DeleteProduto(p.id)
      [] OTHER -> Unmatched

\* the server handles the request of task t and sends its answer
Servidor(t) ==
    /\ t.etapa = "enviado"
    /\ \E o \in Rota(t.pedido) :
          /\ Stored(o)
          /\ tarefas' = (tarefas (-) Um(t))
                        (+) Um([t EXCEPT !.etapa = "respondido", !.resposta = o.resp])
    /\ evento' = Nada
    /\ UNCHANGED <<produtos, produtoParaExcluir, modalConfirmacao, lista, btnCadastrar,
                   statusConexao, resp>>

(* --- an async function resuming after its fetch ------------------------ *)

\* the submit listener without its finally block
AposChamadaSemFinally(chamador) == btnCadastrar

\* the finally block of the submit listener, once cadastrarProduto returns
AposChamada(chamador) ==
    IF chamador = "submit" THEN toggleLoadingCadastro(FALSE) ELSE btnCadastrar

\* testarConexao without its catch block: the banner goes online whatever
\* the outcome of the fetch
RetomaTestarConexaoSemCatch(t, failed) ==
    /\ statusConexao' = [atualizarStatusConexao("online") EXCEPT !.timer = TRUE]
    /\ evento' = Nada
    /\ tarefas' = tarefas (-) Um(t)
    /\ UNCHANGED <<produtos, produtoParaExcluir, modalConfirmacao, lista, btnCadastrar>>

\* testarConexao after its fetch; failed is a rejected fetch
RetomaTestarConexao(t, failed) ==
    /\ IF ~failed /\ t.resposta.success
       THEN /\ statusConexao' = [atualizarStatusConexao("online") EXCEPT !.timer = TRUE]
            /\ evento' = Nada
       ELSE /\ statusConexao' = atualizarStatusConexao("offline")
            /\ evento' = Evento(<<Notificacao("erro", "Erro de conexao com a API")>>, FALSE)
    /\ tarefas' = tarefas (-) Um(t)
    /\ UNCHANGED <<produtos, produtoParaExcluir, modalConfirmacao, lista, btnCadastrar>>

\* buscarProdutos after its fetch, and then what awaited it
RetomaBuscarProdutos(t, failed) ==
    /\ IF ~failed /\ Ok(t.resposta)
       THEN /\ produtos' = t.resposta.data
            /\ lista' = FimDaBusca(renderizarProdutos(t.resposta.data), t)
            /\ evento' = Nada
       ELSE /\ lista' = FimDaBusca(ListaFalhou, t)
            /\ evento' = Evento(<<Notificacao("erro", "Erro ao carregar produtos")>>, FALSE)
            /\ UNCHANGED produtos
    /\ btnCadastrar' = AposChamada(t.chamador)
    /\ tarefas' = tarefas (-) Um(t)
    /\ UNCHANGED <<produtoParaExcluir, modalConfirmacao, statusConexao>>

\* RetomaMutacao returning after a successful answer without calling
\* buscarProdutos
RetomaMutacaoSemBusca(t, failed) ==
    LET cadastro == t.fn = "cadastrarProduto"
    IN  /\ tarefas' = tarefas (-) Um(t)
        /\ evento' = Evento(<<Notificacao(IF ~failed /\ Ok(t.resposta) THEN "sucesso" ELSE "erro",
                                          IF cadastro
                                          THEN "cadastrarProduto"
                                          ELSE "excluirProduto")>>,
                            ~failed /\ Ok(t.resposta) /\ cadastro)
        /\ btnCadastrar' = AposChamada(t.chamador)
        /\ UNCHANGED <<lista, produtos, produtoParaExcluir, modalConfirmacao, statusConexao>>

\* cadastrarProduto or excluirProduto after its fetch: on success it
\* notifies (cadastrarProduto also resets the form) and calls
\* buscarProdutos, whose fetch the task then awaits; on failure it notifies
\* and returns
RetomaMutacao(t, failed) ==
    LET cadastro == t.fn = "cadastrarProduto"
    IN  /\ IF ~failed /\ Ok(t.resposta)
           THEN /\ lista' = ListaCarregando
                /\ tarefas' = (tarefas (-) Um(t))
                              (+) Um(Tarefa("buscarProdutos", t.chamador, PedidoLista))
                /\ evento' = Evento(<<Notificacao("sucesso",
                                                  IF cadastro
                                                  THEN "Produto cadastrado com sucesso!"
                                                  ELSE "Produto excluido com sucesso!")>>,
                                    cadastro)
                /\ UNCHANGED btnCadastrar
           ELSE /\ tarefas' = tarefas (-) Um(t)
                /\ evento' = Evento(<<Notificacao("erro",
                                                  IF cadastro
                                                  THEN "Erro ao cadastrar produto"
                                                  ELSE "Erro ao excluir produto")>>,
                                    FALSE)
                /\ btnCadastrar' = AposChamada(t.chamador)
                /\ UNCHANGED lista
        /\ UNCHANGED <<produtos, produtoParaExcluir, modalConfirmacao, statusConexao>>

Retoma(t, failed) ==
    /\ CASE t.fn = "testarConexao" -> RetomaTestarConexao(t, failed)
         [] t.fn = "buscarProdutos" -> RetomaBuscarProdutos(t, failed)
         [] t.fn \in {"cadastrarProduto", "excluirProduto"} -> RetomaMutacao(t, failed)
    /\ UNCHANGED <<storeVars, resp>>

\* the fetch of task t resolves with the answer of the server
Resposta(t) == t.etapa = "respondido" /\ Retoma(t, FALSE)

\* the fetch of task t rejects: the request or its answer was lost
Falha(t) == Retoma(t, TRUE)

(* ----------------------------------------------------------------------- *)
(* The page and the API together                                           *)
(* ----------------------------------------------------------------------- *)
NomeFields == {<<" ", " ">>, <<" ", "P", "a", "o", " ">>}

PrecoFields ==
    {<<"a", "b", "c">>, <<"0">>, <<"-", "3">>, <<"5">>, <<"5", ",", "5", "0">>}

DescricaoFields == {<<>>}

\* the page before its script runs
ClientIdle ==
    /\ produtos = <<>>
    /\ produtoParaExcluir = Null
    /\ modalConfirmacao = [hidden |-> TRUE, nome |-> <<>>]
    /\ lista = [loading |-> FALSE, vazia |-> FALSE, grid |-> FALSE, contador |-> FALSE,
                cartoes |-> <<>>, total |-> 0, antes |-> NadaVisivel]
    /\ btnCadastrar = toggleLoadingCadastro(FALSE)
    /\ statusConexao = [classe |-> "loading", hidden |-> TRUE, timer |-> FALSE]
    /\ tarefas = EmptyBag
    /\ evento = Nada

\* the state once the DOMContentLoaded listener has run: testarConexao() and
\* buscarProdutos() are both suspended at their fetch
Init ==
    /\ InitStore
    /\ resp = NoResponse
    /\ produtos = <<>>
    /\ produtoParaExcluir = Null
    /\ modalConfirmacao = [hidden |-> TRUE, nome |-> <<>>]
    /\ lista = [loading |-> TRUE, vazia |-> FALSE, grid |-> FALSE, contador |-> FALSE,
                cartoes |-> <<>>, total |-> 0, antes |-> NadaVisivel]
    /\ btnCadastrar = toggleLoadingCadastro(FALSE)
    /\ statusConexao = [classe |-> "loading", hidden |-> FALSE, timer |-> FALSE]
    /\ tarefas = Um(Tarefa("testarConexao", "", PedidoTeste))
                 (+) Um(Tarefa("buscarProdutos", "", PedidoLista))
    /\ evento = Nada

UserSubmit ==
    \E nome \in NomeFields, preco \in PrecoFields, descricao \in DescricaoFields :
        Submit(nome, preco, descricao)

ServerStep == \E t \in BagToSet(tarefas) : Servidor(t)
FetchResolves == \E t \in BagToSet(tarefas) : Resposta(t)
FetchRejects == \E t \in BagToSet(tarefas) : Falha(t)

Next ==
    \/ UserSubmit
    \/ ClickAtualizar
    \/ ClickExcluir
    \/ ClickCancelar
    \/ ClickFora
    \/ TeclaEscape
    \/ executarExclusao
    \/ OcultarStatus
    \/ ServerStep
    \/ FetchResolves
    \/ FetchRejects

Spec == Init /\ [][Next]_vars

\* the server answers a request of the client with success (the store
\* reports no error): every answer waiting to be received is a success
ServerAnswersOk ==
    \E t \in BagToSet(tarefas) :
        /\ Servidor(t)
        /\ \A u \in BagToSet(tarefas') : u.etapa = "respondido" => u.resposta.success

\* the page and the API when no call fails: no fetch rejects and no request
\* is answered without success
NextSemFalhas ==
    \/ UserSubmit
    \/ ClickAtualizar
    \/ ClickExcluir
    \/ ClickCancelar
    \/ ClickFora
    \/ TeclaEscape
    \/ executarExclusao
    \/ OcultarStatus
    \/ ServerAnswersOk
    \/ FetchResolves

SpecSemFalhas == Init /\ [][NextSemFalhas]_vars

(* ----------------------------------------------------------------------- *)
(* Requests sent straight to the API                                       *)
(* ----------------------------------------------------------------------- *)
NomeInputs ==
    {Undefined, Str(<<>>), Str(<<" ", " ">>), Str(<<" ", "P", "a", "o", " ">>), Num(5)}

PrecoInputs ==
    {Undefined, Str(<<>>), Num(0), Num(0 - 1), Fin(55, 1), Str(<<"5", ".", "5", "0">>),
     Str(<<"a", "b", "c">>), Str(<<"0", "x", "1", "0">>), Bool(TRUE)}

DescricaoInputs == {Undefined, Str(<<" ", "d", "o", "c", "e">>)}

\* a body that passes validation, around which the inputs are varied
ValidBody ==
    [nome |-> Str(<<" ", "P", "a", "o", " ">>), preco |-> Fin(55, 1), descricao |-> Undefined]

\* request bodies: every nome with a valid preco, every preco and descricao
\* with a valid nome, and bodies in which both nome and preco are bad
CreateBodies ==
    {[ValidBody EXCEPT !.nome = n] : n \in NomeInputs}
    \cup {[ValidBody EXCEPT !.preco = p, !.descricao = d] :
              p \in PrecoInputs, d \in DescricaoInputs}
    \cup {[ValidBody EXCEPT !.nome = n, !.preco = p] :
              n \in {Undefined, Str(<<" ", " ">>)}, p \in {Undefined, Num(0)}}

\* path ids: every id the store can hold, and ids that are no integer
IdInputs ==
    {NatToString(i) : i \in 1..MaxId}
    \cup {<<"9">>, <<"1", ".", "5">>, <<"a", "b", "c">>, <<"n", "u", "l", "l">>}

InitApi == InitStore /\ ClientIdle /\ resp = NoResponse

\* the API handles request p and answers it
Api(p) ==
    /\ \E o \in Rota(p) : Stored(o) /\ resp' = o.resp
    /\ UNCHANGED clientVars

ApiTest == Api(PedidoTeste)
ApiList == Api(PedidoLista)
ApiCreate == \E body \in CreateBodies : Api(Pedido("POST", "/api/produtos", <<>>, body))
ApiDelete == \E id \in IdInputs : Api(Pedido("DELETE", "/api/produtos/", id, NoBody))
ApiUnmatched == Api(Pedido("GET", "/", <<>>, NoBody))

NextApi == ApiTest \/ ApiList \/ ApiCreate \/ ApiDelete \/ ApiUnmatched

SpecApi == InitApi /\ [][NextApi]_vars

(* ----------------------------------------------------------------------- *)
(* The API with a store whose calls may reject                             *)
(* ----------------------------------------------------------------------- *)
\* the message of the exception a rejected store call throws at its await
StoreRejectionMessage == "fetch failed"

\* a handler whose await of the store call throws: control goes to its
\* catch block and the table is left as it is; {} when the handler of p
\* answers before it reaches the store
Rejected(p) ==
    LET req == [nome |-> p.body.nome, preco |-> p.body.preco,
                descricao |-> p.body.descricao, id |-> p.id]
        caught(op) == {Answered([InternalError(op, req, 1)
                                    EXCEPT !.error = StoreRejectionMessage])}
    IN  CASE p.method = "GET" /\ p.rota = "/api/produtos" -> caught("GET /api/produtos")
          [] p.method = "POST" /\ p.rota = "/api/produtos" ->
                IF CreateValidation(p.body) = "" /\ ~CreateThrows(p.body)
                THEN caught("POST /api/produtos")
                ELSE {}
          [] p.method = "DELETE" /\ p.rota = "/api/produtos/" /\ p.id # <<>> ->
                IF DeleteValidation(p.id) = "" THEN caught("DELETE /api/produtos/:id") ELSE {}
          [] OTHER -> {}

\* the requests whose handlers call the store
StoreRequests ==
    {PedidoLista}
    \cup {Pedido("POST", "/api/produtos", <<>>, body) : body \in CreateBodies}
    \cup {Pedido("DELETE", "/api/produtos/", id, NoBody) : id \in IdInputs}

\* the API handles a request and the store call of its handler rejects
ApiRejects ==
    /\ \E p \in StoreRequests : \E o \in Rejected(p) : Stored(o) /\ resp' = o.resp
    /\ UNCHANGED clientVars

NextApiExc == NextApi \/ ApiRejects

SpecApiExc == InitApi /\ [][NextApiExc]_vars

(* ----------------------------------------------------------------------- *)
(* Create requests handled concurrently                                    *)
(* ----------------------------------------------------------------------- *)
\* The handler of POST /api/produtos has one await, the call of the store.
\* Requests of several clients are in flight in tarefas: "enviado" is a
\* handler suspended at that await with the insert not yet executed,
\* "respondido" one whose answer is decided and not yet sent.
ConcBodies ==
    {ValidBody,
     [ValidBody EXCEPT !.nome = Str(<<"B", "o", "l", "o">>), !.preco = Num(3)],
     [ValidBody EXCEPT !.preco = Num(0)]}

ConcReq(body) ==
    [nome |-> body.nome, preco |-> body.preco, descricao |-> body.descricao, id |-> <<>>]

\* a request arrives and its handler runs up to the await: its answer is
\* decided at once when validation fails or building the row throws,
\* otherwise it hands the row to the store
ConcChega(body) ==
    LET t == Tarefa("POST /api/produtos", "", Pedido("POST", "/api/produtos", <<>>, body))
    IN  /\ BagCardinality(tarefas) < MaxTarefas
        /\ tarefas' = tarefas (+) Um(
              IF CreateValidation(body) # ""
              THEN [t EXCEPT !.etapa = "respondido",
                             !.resposta = Envelope("POST /api/produtos", ConcReq(body), 400,
                                                   FALSE, CreateValidation(body), "", <<>>,
                                                   NoTotal, 0)]
              ELSE IF CreateThrows(body)
              THEN [t EXCEPT !.etapa = "respondido",
                             !.resposta = InternalError("POST /api/produtos", ConcReq(body), 0)]
              ELSE t)
        /\ UNCHANGED <<storeVars, resp, produtos, produtoParaExcluir, modalConfirmacao, lista,
                       btnCadastrar, statusConexao, evento>>

\* the store executes the insert a suspended handler is waiting for
ConcInsere(t) ==
    /\ t.etapa = "enviado"
    /\ nextId <= MaxId
    /\ \E now \in {clock, clock + 1} :
         \E r \in StoreInsert(store, CreateRow(t.pedido.body), nextId, now) :
            /\ store' = r.rows
            /\ nextId' = IF r.failed THEN nextId ELSE nextId + 1
            /\ clock' = IF r.failed THEN clock ELSE now
            /\ tarefas' = (tarefas (-) Um(t))
                          (+) Um([t EXCEPT !.etapa = "respondido",
                                           !.resposta = CreateResponse(ConcReq(t.pedido.body), r)])
    /\ UNCHANGED <<removed, resp, produtos, produtoParaExcluir, modalConfirmacao, lista,
                   btnCadastrar, statusConexao, evento>>

\* a handler resumes after its await and sends its answer
ConcResponde(t) ==
    /\ t.etapa = "respondido"
    /\ resp' = t.resposta
    /\ tarefas' = tarefas (-) Um(t)
    /\ UNCHANGED <<storeVars, produtos, produtoParaExcluir, modalConfirmacao, lista,
                   btnCadastrar, statusConexao, evento>>

ConcArrival == \E body \in ConcBodies : ConcChega(body)
ConcStore == \E t \in BagToSet(tarefas) : ConcInsere(t)
ConcAnswer == \E t \in BagToSet(tarefas) : ConcResponde(t)

NextConc == ConcArrival \/ ConcStore \/ ConcAnswer

SpecConc == InitApi /\ [][NextConc]_vars

(* ----------------------------------------------------------------------- *)
(* Properties of the API                                                   *)
(* ----------------------------------------------------------------------- *)
PostOp == "POST /api/produtos"
DeleteOp == "DELETE /api/produtos/:id"
ListOp == "GET /api/produtos"

\* a field that is absent from the body, or empty
AbsentOrEmpty(v) == v.t \in {"undefined", "null"} \/ v = Str(<<>>)

\* the numeric value of v is a number greater than 0
PositiveNumber(v) ==
    LET n == ToNumber(v) IN n.k \in {"fin", "inf"} /\ n.m > 0

\* a body the create operation is specified to reject
InvalidCreate(req) ==
    AbsentOrEmpty(req.nome) \/ AbsentOrEmpty(req.preco) \/ ~PositiveNumber(req.preco)

\* the store reported an error to the handler that answered
StoreFailed(r) == r.calls = 1 /\ r.status = 400

\* the path id is numeric
NumericId(id) == ToNumber(Str(id)).k # "nan"

\* the rows whose id is the number the path id denotes
RowsWithId(rows, id) == {r \in rows : Num(r.id) = ToNumber(Str(id))}

\* C1: every record held by the store has a name that is non-empty after
\* trimming and a price that is a number greater than 0.
C1_RecordsValid ==
    \A r \in store :
        /\ r.nome.t = "string" /\ Trim(r.nome.s) # <<>>
        /\ r.preco.t = "number" /\ r.preco.k = "fin" /\ r.preco.m > 0

C4_MissingIdNotFound ==
    [][(/\ resp'.op = DeleteOp
        /\ NumericId(resp'.req.id)
        /\ RowsWithId(store, resp'.req.id) = {}
        /\ ~StoreFailed(resp'))
         => /\ resp'.status = 404
            /\ ~resp'.success
            /\ store' = store]_vars

\* C5: a successful delete of an existing id i answers with the record i and
\* removes it alone; no list request handled afterwards returns a record
\* whose delete was answered with success.
C5_DeletedStaysGone ==
    [][/\ (/\ resp'.op = DeleteOp
           /\ resp'.success
           /\ RowsWithId(store, resp'.req.id) # {})
            => /\ Len(resp'.data) = 1
               /\ resp'.data[1] \in RowsWithId(store, resp'.req.id)
               /\ store' = store \ {resp'.data[1]}
               /\ resp'.data[1].id \in removed'
       /\ (resp'.op = ListOp /\ resp'.status = 200)
            => \A i \in DOMAIN resp'.data : resp'.data[i].id \notin removed'
      ]_vars

\* a list answered after a successful delete, with another record left
C5_Witness ==
    /\ resp.op = ListOp
    /\ resp.status = 200
    /\ removed # {}
    /\ Len(resp.data) > 0

\* C6: a delete request with a non-numeric id is answered 400 without a
\* store call; any other delete request removes no record whose id differs
\* from the id given in the path.
C6_DeleteKeyedById ==
    [][resp'.op = DeleteOp
         => /\ ~NumericId(resp'.req.id)
               => (resp'.status = 400 /\ resp'.calls = 0 /\ store' = store)
            /\ (store \ store') \subseteq RowsWithId(store, resp'.req.id)]_vars

\* C7: a create request with a valid body (string fields), served by the
\* store without error, is answered 201 with the stored record: price equal
\* to the numeric value of the supplied price, name and description
\* trimmed, description null when absent, a fresh id and a timestamp; the
\* store gains exactly that record.
C7_CreateStoresCoercedRecord ==
    [][(/\ resp'.op = PostOp
        /\ ~InvalidCreate(resp'.req)
        /\ resp'.req.nome.t = "string"
        /\ resp'.req.descricao.t \in {"string", "undefined", "null"}
        /\ ~StoreFailed(resp'))
         => /\ resp'.status = 201
            /\ resp'.success
            /\ Len(resp'.data) = 1
            /\ resp'.data[1].preco = ToNumber(resp'.req.preco)
            /\ resp'.data[1].nome = Str(Trim(resp'.req.nome.s))
            /\ resp'.data[1].descricao =
                  (IF AbsentOrEmpty(resp'.req.descricao)
                   THEN Null
                   ELSE Str(Trim(resp'.req.descricao.s)))
            /\ \A r \in store : r.id # resp'.data[1].id
            /\ resp'.data[1].created_at = clock'
            /\ store' = store \cup {resp'.data[1]}
            /\ resp'.data[1] \notin store]_vars

\* C8: a list request the store serves without error is answered 200 with
\* all records of the store, newest first, and total equal to their number.
C8_ListNewestFirst ==
    (resp.op = ListOp /\ ~StoreFailed(resp))
      => /\ resp.status = 200
         /\ resp.success
         /\ Range(resp.data) = store
         /\ Len(resp.data) = Cardinality(store)
         /\ \A i, j \in DOMAIN resp.data :
               i < j => resp.data[i].created_at >= resp.data[j].created_at
         /\ resp.total = Len(resp.data)

\* a list of two records created at different times
C8_Witness ==
    /\ resp.op = ListOp
    /\ resp.status = 200
    /\ Len(resp.data) = 2
    /\ resp.data[1].created_at > resp.data[2].created_at


(* ----------------------------------------------------------------------- *)
(* Properties of the page                                                  *)
(* ----------------------------------------------------------------------- *)
\* the text of a form field is no number
NonNumericField(text) == ToNumber(Str(text)).k = "nan"

\* the text of a form field is a number that is zero or negative
NonPositiveField(text) ==
    LET n == ToNumber(Str(text)) IN n.k # "nan" /\ n.m <= 0

\* C3: confirming the prompt opened for id i issues exactly one DELETE
\* request to /api/produtos/i; once that request is answered with success
\* the list is fetched again.
C3_ConfirmDeletesPendingId ==
    [][/\ (executarExclusao /\ Truthy(produtoParaExcluir))
            => tarefas' = tarefas (+) Um(Tarefa("excluirProduto", "",
                                                PedidoExclusao(produtoParaExcluir)))
       /\ \A t \in BagToSet(tarefas) :
             (t.fn = "excluirProduto" /\ Ok(t.resposta) /\ Resposta(t))
                => BagIn(Tarefa("buscarProdutos", "", PedidoLista), tarefas')
      ]_vars

\* C9: submitting the form with a name that is empty after trimming, or a
\* price that is non-numeric, zero or negative, shows a notification, issues
\* no request, leaves the submit button and the record list as they were.
C9_InvalidFormStaysLocal ==
    [][\A nome \in NomeFields, preco \in PrecoFields, descricao \in DescricaoFields :
          (/\ Submit(nome, preco, descricao)
           /\ (Trim(nome) = <<>> \/ NonNumericField(preco) \/ NonPositiveField(preco)))
             => /\ evento'.notificacoes # <<>>
                /\ evento'.notificacoes[1].tipo = "erro"
                /\ tarefas' = tarefas
                /\ btnCadastrar' = btnCadastrar
                /\ produtos' = produtos
      ]_vars

\* C10: cancelling the prompt (cancel button, backdrop click, Escape) sets
\* the pending id to null, hides the prompt, issues no request and leaves
\* the record list unchanged; only opening the prompt sets the pending id
\* again, and a confirm with no pending id issues no request.
C10_CancelDiscardsPending ==
    [][/\ (ClickCancelar \/ ClickFora \/ (TeclaEscape /\ ~modalConfirmacao.hidden))
            => /\ produtoParaExcluir' = Null
               /\ modalConfirmacao'.hidden
               /\ tarefas' = tarefas
               /\ produtos' = produtos
       /\ (produtoParaExcluir = Null /\ produtoParaExcluir' # Null) => ClickExcluir
       /\ (executarExclusao /\ produtoParaExcluir = Null) => tarefas' = tarefas
      ]_vars

\* the prompt was opened for a listed record and is closed again with the
\* pending id discarded, no call in flight and the record still listed
C10_Witness ==
    /\ modalConfirmacao.hidden
    /\ modalConfirmacao.nome # <<>>
    /\ produtoParaExcluir = Null
    /\ tarefas = EmptyBag
    /\ Len(produtos) > 0
    /\ \A i \in DOMAIN produtos : produtos[i] \in store


\* the calls that change the store
Mutacoes == {"cadastrarProduto", "excluirProduto"}

\* the number of display states the list view shows
EstadosVisiveis(l) ==
    (IF l.loading THEN 1 ELSE 0) + (IF l.vazia THEN 1 ELSE 0) + (IF l.grid THEN 1 ELSE 0)

\* C11: produtos changes only by being replaced with the data of a list
\* fetch answered with success, and a create or delete call whose successful
\* answer the client receives is followed at once by a list fetch.
C11_ListIsRefetchedCache ==
    [][/\ produtos' # produtos
            => \E t \in BagToSet(tarefas) :
                  /\ t.fn = "buscarProdutos"
                  /\ t.resposta.op = ListOp
                  /\ t.resposta.success
                  /\ Resposta(t)
                  /\ produtos' = t.resposta.data
       /\ \A t \in BagToSet(tarefas) :
             (t.fn \in Mutacoes /\ t.resposta.success /\ Resposta(t))
                => tarefas' = (tarefas (-) Um(t))
                              (+) Um(Tarefa("buscarProdutos", t.chamador, PedidoLista))
      ]_vars

\* a create was answered with success and the list fetch that follows it is
\* in flight, the list not yet holding the new record
C11_Witness ==
    /\ evento.reset
    /\ store # {}
    /\ produtos = <<>>
    /\ \E t \in BagToSet(tarefas) :
          t.fn = "buscarProdutos" /\ t.chamador = "submit" /\ t.etapa = "enviado"

\* C12: the list view shows at most one of loading indicator, empty state
\* and grid; a refresh that succeeds shows the grid exactly when the fetched
\* collection is non-empty; a refresh that fails shows the empty state and
\* not the grid.
C12_OneViewState ==
    [][/\ EstadosVisiveis(lista') <= 1
       /\ \A t \in BagToSet(tarefas) :
             (t.fn = "buscarProdutos" /\ Ok(t.resposta) /\ Resposta(t))
                => (lista'.grid <=> Len(t.resposta.data) > 0)
       /\ \A t \in BagToSet(tarefas) :
             (/\ t.fn = "buscarProdutos"
              /\ \/ Falha(t)
                 \/ (t.etapa = "respondido" /\ ~Ok(t.resposta) /\ Resposta(t)))
                => (lista'.vazia /\ ~lista'.grid)
      ]_vars


\* C13: when the store reports an error to the list, create or delete
\* handler, the answer is 400 with success false and carries the store's
\* error message unchanged (for delete: neither 404 nor 500).
C13_StoreErrorIs400 ==
    (resp.op \in {ListOp, PostOp, DeleteOp} /\ resp.dbError # "")
      => /\ resp.status = 400
         /\ ~resp.success
         /\ resp.error = resp.dbError
         /\ resp.error = StoreErrorMessage

\* the store failed on the delete of a record it holds
C13_Witness ==
    /\ resp.op = DeleteOp
    /\ resp.dbError # ""
    /\ resp.status = 400
    /\ RowsWithId(store, resp.req.id) # {}


\* the create call of a form submission, or the refresh it awaits, is pending
CadastroPendente == \E t \in BagToSet(tarefas) : t.chamador = "submit"

Falhou(t) == Falha(t) \/ (t.etapa = "respondido" /\ ~Ok(t.resposta) /\ Resposta(t))

\* task t is the only pending call of buscarProdutos and began while the
\* view showed the empty state or the grid and no loading indicator, so
\* lista.antes is the view before it (what the page shows before its first
\* call is left to the markup)
BuscaIsolada(t) ==
    /\ ~lista.antes.loading
    /\ lista.antes # NadaVisivel
    /\ \A u \in BagToSet(tarefas (-) Um(t)) : u.fn # "buscarProdutos"

\* C15: when a create, delete or list call of the client fails, an error
\* notification is shown, produtos and the list view are as they were before
\* the call; a failed create or delete starts no refresh and does not reset
\* the form.
C15_FailedCallKeepsState ==
    [][\A t \in BagToSet(tarefas) :
          (t.fn \in Mutacoes \cup {"buscarProdutos"} /\ Falhou(t))
             => /\ Len(evento'.notificacoes) = 1
                /\ evento'.notificacoes[1].tipo = "erro"
                /\ produtos' = produtos
                /\ t.fn \in Mutacoes
                      => /\ Visivel(lista') = Visivel(lista)
                         /\ tarefas' = tarefas (-) Um(t)
                         /\ ~evento'.reset
                /\ (t.fn = "buscarProdutos" /\ BuscaIsolada(t))
                      => Visivel(lista') = lista.antes
      ]_vars


\* C16: of create requests handled concurrently, every insert adds one row
\* with an id no other row has and leaves the other rows as they are, in
\* whichever order the store executes them, and each request is answered 201
\* with the row made of its own body.
C16_ConcurrentCreatesIsolated ==
    [][/\ \A t \in BagToSet(tarefas) :
             (ConcInsere(t) /\ store' # store)
                => \E row \in store' :
                      /\ store' = store \cup {row}
                      /\ \A r \in store : r.id # row.id
                      /\ row.nome = Str(Trim(t.pedido.body.nome.s))
       /\ \A t \in BagToSet(tarefas) :
             (ConcResponde(t) /\ t.resposta.success)
                => /\ resp'.status = 201
                   /\ resp'.req = ConcReq(t.pedido.body)
                   /\ resp'.data[1] \in store'
                   /\ resp'.data[1].nome = Str(Trim(t.pedido.body.nome.s))
                   /\ resp'.data[1].preco = t.pedido.body.preco
       /\ \A r1, r2 \in store' : r1.id = r2.id => r1 = r2
      ]_vars

\* two requests with different bodies are both suspended after their inserts
\* were executed, the one for "Bolo" first
C16_Witness ==
    \E t, u \in BagToSet(tarefas) :
        /\ t.etapa = "respondido" /\ t.resposta.success
        /\ u.etapa = "respondido" /\ u.resposta.success
        /\ t.pedido.body = ValidBody
        /\ t.resposta.data[1].id = 2
        /\ u.resposta.data[1].id = 1
        /\ {t.resposta.data[1], u.resposta.data[1]} = store


\* the request answered by r passed the validation of its handler
PassedValidation(r) ==
    \/ r.op = PostOp /\ CreateValidation(r.req) = ""
    \/ r.op = DeleteOp /\ DeleteValidation(r.req.id) = ""

\* C17: a create or delete request makes at most one write call against the
\* store, and exactly one when it passes validation; health-check, list,
\* unmatched and validation-rejected requests write nothing.
C17_SingleWrite ==
    [][/\ resp'.op \in {PostOp, DeleteOp} => resp'.calls <= 1
       /\ PassedValidation(resp') => resp'.calls = 1
       /\ (resp'.op \in {PostOp, DeleteOp} /\ ~PassedValidation(resp'))
            => (resp'.calls = 0 /\ store' = store /\ nextId' = nextId)
       /\ resp'.op \notin {PostOp, DeleteOp} => (store' = store /\ nextId' = nextId)
      ]_vars


\* C18: the status banner goes from loading to online when the health check
\* is answered with success and from online to hidden when the timer fires;
\* it goes from loading to offline, with an error notification, when the
\* call fails; an offline banner stays as it is, so online never follows
\* offline.
C18_ProbeBanner ==
    [][/\ statusConexao' # statusConexao
            => \/ /\ statusConexao.classe = "loading" /\ ~statusConexao.hidden
                  /\ statusConexao'.classe = "online" /\ ~statusConexao'.hidden
                  /\ \E t \in BagToSet(tarefas) :
                        t.fn = "testarConexao" /\ t.resposta.success /\ Resposta(t)
               \/ /\ statusConexao.classe = "online" /\ ~statusConexao.hidden
                  /\ statusConexao'.classe = "online" /\ statusConexao'.hidden
               \/ /\ statusConexao.classe = "loading" /\ ~statusConexao.hidden
                  /\ statusConexao'.classe = "offline" /\ ~statusConexao'.hidden
                  /\ Len(evento'.notificacoes) = 1
                  /\ evento'.notificacoes[1].tipo = "erro"
                  /\ \E t \in BagToSet(tarefas) : t.fn = "testarConexao" /\ Falhou(t)
       /\ statusConexao.classe = "offline" => statusConexao' = statusConexao
       /\ statusConexao'.classe \in {"loading", "offline"} => ~statusConexao'.hidden
       /\ (statusConexao'.classe = "online" /\ ~statusConexao'.hidden) => statusConexao'.timer
      ]_vars

\* the health check succeeded and the online banner has been hidden again
C18_Witness ==
    /\ statusConexao.classe = "online"
    /\ statusConexao.hidden
    /\ ~statusConexao.timer


\* C19: when no call fails, once every request of the client has been
\* answered and received, produtos holds exactly the rows of the store,
\* whatever the order in which overlapping answers arrived.
C19_ListMatchesStoreWhenIdle ==
    tarefas = EmptyBag
      => /\ Range(produtos) = store
         /\ Len(produtos) = Cardinality(store)


\* C20: the confirmation prompt is visible exactly when the pending-delete
\* id is not null.
C20_PromptIffPendingId ==
    ~modalConfirmacao.hidden <=> produtoParaExcluir # Null

\* the prompt is open for the record with id 1
C20_Witness ==
    /\ ~modalConfirmacao.hidden
    /\ produtoParaExcluir = Num(1)
    /\ modalConfirmacao.nome = <<"P", "a", "o">>


\* the request that answer r answers
PedidoDe(r) ==
    CASE r.op = ListOp -> PedidoLista
      [] r.op = PostOp ->
            Pedido("POST", "/api/produtos", <<>>,
                   [nome |-> r.req.nome, preco |-> r.req.preco, descricao |-> r.req.descricao])
      [] r.op = DeleteOp -> Pedido("DELETE", "/api/produtos/", r.req.id, NoBody)
      [] OTHER -> PedidoTeste

\* the step is one in which the store call of the handler rejected
StoreCallRejected ==
    \E o \in Rejected(PedidoDe(resp')) : Stored(o) /\ resp' = o.resp

\* building the row of the create request answered by r threw a TypeError
ThrewInHandler(r) ==
    r.op = PostOp /\ CreateValidation(r.req) = "" /\ CreateThrows(r.req)

\* C21: every request the API handles is answered, with status 200, 201,
\* 400, 404 or 500 and success true exactly for 200 and 201; when handling a
\* list, create or delete request throws (the store call rejects, or
\* building the row fails) the answer is the 500 envelope and the store is
\* left as it was.
C21_EnvelopeAnd500 ==
    [][/\ resp'.op # "none"
       /\ resp'.status \in {200, 201, 400, 404, 500}
       /\ resp'.success <=> resp'.status \in {200, 201}
       /\ (StoreCallRejected \/ ThrewInHandler(resp'))
            => /\ resp'.status = 500
               /\ ~resp'.success
               /\ resp'.message = "Erro interno do servidor"
               /\ resp'.error # ""
               /\ resp'.data = <<>>
               /\ store' = store
      ]_vars

\* the store call of a delete for a record the store holds rejected
C21_Witness ==
    /\ resp.op = DeleteOp
    /\ resp.status = 500
    /\ resp.error = StoreRejectionMessage
    /\ RowsWithId(store, resp.req.id) # {}

====
